---- MODULE Spec2Model ----
(***************************************************************************)
(* csv_manager.manager.CSVManager: a pandas DataFrame loaded from a CSV   *)
(* file, with query / add_row / update_data / delete_rows / save_changes. *)
(*                                                                         *)
(* A DataFrame is the record                                               *)
(*   [columns : sequence of column names,                                  *)
(*    index   : sequence of row labels (one per row),                      *)
(*    name    : the name of the index ("" when it has none),               *)
(*    rows    : sequence of rows, each a sequence of cells aligned with    *)
(*              columns].                                                  *)
(* result is the frame the caller got from its last query, and alias tells *)
(* whether that frame is the very object self.data refers to.              *)
(* A cell is a natural number or NULL (pandas NaN / None).                 *)
(* A file is the record [exists, lines]; a line is a sequence of text      *)
(* fields, the first line being the header.                                *)
(***************************************************************************)
EXTENDS Integers, Sequences, FiniteSets, TLC

VARIABLES fs, filepath, data, op, ret, out, result, alias, calls

vars == <<fs, filepath, data, op, ret, out, result, alias, calls>>

(***************************************************************************)
(* Bounds of the model.                                                    *)
(***************************************************************************)
MaxRows == 3
MaxCalls == 3
MaxVal == 2

NULL == -1

Range(s) == {s[i] : i \in DOMAIN s}

\* positions 1..Len(s) whose element satisfies the mask, kept in order
RECURSIVE SelectIdx(_, _)
SelectIdx(mask, n) ==
  IF n = 0 THEN <<>>
  ELSE IF mask[n] THEN Append(SelectIdx(mask, n - 1), n)
       ELSE SelectIdx(mask, n - 1)

\* the elements of s at the positions listed in idx
Take(s, idx) == [k \in DOMAIN idx |-> s[idx[k]]]

\* position of the first occurrence of c in the sequence s, 0 when absent
Pos(s, c) ==
  IF c \in Range(s) THEN CHOOSE i \in DOMAIN s : s[i] = c /\ \A j \in 1..(i - 1) : s[j] # c
  ELSE 0

(***************************************************************************)
(* pandas objects                                                          *)
(***************************************************************************)
\* pd.DataFrame()
EmptyFrame == [columns |-> <<>>, index |-> <<>>, name |-> "", rows |-> <<>>]

\* DataFrame.shape[0]
NRows(df) == Len(df.rows)

\* DataFrame.empty: True when any axis has length 0
IsEmpty(df) == Len(df.columns) = 0 \/ Len(df.rows) = 0

\* pd.RangeIndex(n): the labels 0..n-1
RangeIndex(n) == [i \in 1..n |-> i - 1]

\* Series.get(c): the cell of the row under column c, None when the row has no such column
Cell(df, i, c) == IF Pos(df.columns, c) = 0 THEN NULL ELSE df.rows[i][Pos(df.columns, c)]

\* DataFrame.reindex(columns=cols): the cells under cols, NaN for a column the frame lacks
Reindex(df, cols) ==
  [df EXCEPT !.columns = cols,
             !.rows = [i \in DOMAIN df.rows |-> [k \in DOMAIN cols |-> Cell(df, i, cols[k])]]]

(***************************************************************************)
(* CSV text: what DataFrame.to_csv writes and what pd.read_csv reads.      *)
(***************************************************************************)
Digits == <<"0", "1", "2", "3", "4", "5", "6", "7", "8", "9">>

\* NaN written as the text of a number
ToTextNanAsZero(v) == IF v = NULL THEN "0" ELSE Digits[v + 1]

\* a cell as written by to_csv: NaN is written as the empty field
ToText(v) == IF v = NULL THEN "" ELSE Digits[v + 1]

\* a field as parsed by read_csv: the empty field is NaN
FromText(s) == IF s = "" THEN NULL ELSE CHOOSE n \in 0..9 : Digits[n + 1] = s

\* DataFrame.to_csv(path, index=...): the header line, then one line per row;
\* index=True (the default) puts the index name and the row label first
ToCsv(df, index) ==
  LET header == IF index THEN <<df.name>> \o df.columns ELSE df.columns
      line(i) == IF index
                 THEN <<ToText(df.index[i])>> \o [k \in DOMAIN df.columns |-> ToText(df.rows[i][k])]
                 ELSE [k \in DOMAIN df.columns |-> ToText(df.rows[i][k])]
  IN  <<header>> \o [i \in DOMAIN df.rows |-> line(i)]

\* read_csv names a blank header field "Unnamed: <position>" and makes a
\* repeated name unique by the suffix ".<count>"; the named fields are
\* counted before the blank ones, so a given name is kept
HeaderNames(h) ==
  LET base == [i \in DOMAIN h |-> IF h[i] = "" THEN "Unnamed: " \o Digits[i] ELSE h[i]]
      seen(i) == IF h[i] # ""
                 THEN Cardinality({j \in 1..(i - 1) : h[j] # "" /\ base[j] = base[i]})
                 ELSE Cardinality({j \in DOMAIN h : h[j] # "" /\ base[j] = base[i]})
  IN  [i \in DOMAIN h |-> IF seen(i) = 0 THEN base[i] ELSE base[i] \o "." \o Digits[seen(i) + 1]]

\* blank lines are skipped by read_csv
NonBlank(lines) == Take(lines, SelectIdx([i \in DOMAIN lines |-> Len(lines[i]) > 0], Len(lines)))

\* pd.read_csv(path, index_col=...): [err, df].  err is "EmptyDataError" when
\* there is no header to parse, "Exception" for a line with more fields than
\* the header (ParserError) or an index_col the header lacks (ValueError).
\* Short lines are padded with NaN.  No file of the model has the layout in
\* which every data line is one field longer than the header.
ReadCsv(lines, index_col) ==
  LET ls == NonBlank(lines)
      names == HeaderNames(ls[1])
      body == Tail(ls)
      cell(i, k) == IF k <= Len(body[i]) THEN FromText(body[i][k]) ELSE NULL
      full == [columns |-> names, index |-> RangeIndex(Len(body)), name |-> "",
               rows |-> [i \in DOMAIN body |-> [k \in DOMAIN names |-> cell(i, k)]]]
      kp == Pos(names, index_col)
      rest == SelectIdx([k \in DOMAIN names |-> k # kp], Len(names))
      keyed == [columns |-> Take(names, rest),
                index |-> [i \in DOMAIN body |-> cell(i, kp)],
                name |-> index_col,
                rows |-> [i \in DOMAIN body |-> Take(full.rows[i], rest)]]
  IN  IF Len(ls) = 0 THEN [err |-> "EmptyDataError", df |-> EmptyFrame]
      ELSE IF \E i \in DOMAIN body : Len(body[i]) > Len(names)
           THEN [err |-> "Exception", df |-> EmptyFrame]
      ELSE IF index_col # "" /\ kp = 0 THEN [err |-> "Exception", df |-> EmptyFrame]
      ELSE IF index_col # "" THEN [err |-> "", df |-> keyed]
      ELSE [err |-> "", df |-> full]

\* a line printed by the program: the kind of message and the number it shows
Msg(m, n) == [msg |-> m, n |-> n]

\* _load_csv without the last except clause: the exception leaves the constructor
LoadCsvNoCatchAll(files, path, index_col) ==
  LET r == ReadCsv(files[path].lines, index_col)
  IN  IF ~files[path].exists
      THEN [df |-> EmptyFrame, out |-> <<Msg("Warning: not found", 0)>>, raised |-> FALSE]
      ELSE IF r.err = "EmptyDataError"
           THEN [df |-> EmptyFrame, out |-> <<Msg("Warning: is empty", 0)>>, raised |-> FALSE]
      ELSE IF r.err = "Exception"
           THEN [df |-> EmptyFrame, out |-> <<>>, raised |-> TRUE]
      ELSE [df |-> r.df, out |-> <<>>, raised |-> FALSE]

\* CSVManager._load_csv: [df, out, raised]; index_col "" stands for None.
\* EmptyDataError and every other Exception of read_csv are caught, so no
\* branch lets an exception out of the constructor.
LoadCsv(files, path, index_col) ==
  LET r == ReadCsv(files[path].lines, index_col)
  IN  IF ~files[path].exists
      THEN [df |-> EmptyFrame, out |-> <<Msg("Warning: not found", 0)>>, raised |-> FALSE]
      ELSE IF r.err = "EmptyDataError"
           THEN [df |-> EmptyFrame, out |-> <<Msg("Warning: is empty", 0)>>, raised |-> FALSE]
      ELSE IF r.err = "Exception"
           THEN [df |-> EmptyFrame, out |-> <<Msg("Error loading CSV file", 0)>>, raised |-> FALSE]
      ELSE [df |-> r.df, out |-> <<>>, raised |-> FALSE]

(***************************************************************************)
(* The calls and their arguments.  "" stands for an omitted (None)         *)
(* argument; select/columns is a list, omitted when selected is FALSE.     *)
(***************************************************************************)
NoArgs == [pred |-> "", selected |-> FALSE, select |-> <<>>, row |-> <<>>,
           updates |-> <<>>, path |-> "", index_col |-> "", index |-> TRUE, fault |-> ""]

Call(n, a) == [name |-> n, args |-> a]

\* one more call made on the object, within the number of calls explored
Step == calls < MaxCalls /\ calls' = calls + 1

\* what a call hands back: None, or the DataFrame kept in result
RetNone == [kind |-> "None", n |-> 0]
RetFrame == [kind |-> "DataFrame", n |-> 0]
\* the call did not return: an exception reached the caller
RetRaised == [kind |-> "raised", n |-> 0]

Paths == {"src", "out"}

Missing == [exists |-> FALSE, lines |-> <<>>]
File(ls) == [exists |-> TRUE, lines |-> ls]

\* the files a table is first constructed from, each with the index_col given
InitLoads ==
  { <<Missing, "">>,
    <<File(<<>>), "">>,
    <<File(<< <<"a", "b">>, <<"1", "2">>, <<"1", "2", "0">> >>), "">>,
    <<File(<< <<"a", "b">> >>), "">>,
    <<File(<< <<"a", "b">>, <<"0", "0">>, <<"1", "">> >>), "">>,
    <<File(<< <<"a", "b">>, <<"0", "0">>, <<"1", "">> >>), "k">>,
    <<File(<< <<"k", "a", "b">>, <<"1", "1", "0">>, <<"1", "0", "0">> >>), "k">>,
    <<File(<< <<"k">>, <<"1">> >>), "k">> }

KeyCols == {"", "k"}

\* CSVManager.__init__(filepath, index_col): a new object replaces the current
\* one (an exception out of _load_csv would leave the caller without object)
Construct(path, index_col) ==
  /\ Step
  /\ filepath' = path
  /\ data' = LoadCsv(fs, path, index_col).df
  /\ out' = IF LoadCsv(fs, path, index_col).raised THEN <<>>
            ELSE LoadCsv(fs, path, index_col).out \o <<Msg("loaded successfully", NRows(data'))>>
  /\ op' = Call("__init__", [NoArgs EXCEPT !.path = path, !.index_col = index_col])
  /\ ret' = IF LoadCsv(fs, path, index_col).raised THEN RetRaised ELSE RetNone
  /\ alias' = FALSE
  /\ UNCHANGED <<fs, result>>

\* a table constructed from one of the initial files at the path "src"
Init ==
  /\ filepath = "src"
  /\ \E l \in InitLoads :
       /\ fs = [p \in Paths |-> IF p = "src" THEN l[1] ELSE Missing]
       /\ data = LoadCsv(fs, "src", l[2]).df
       /\ out = LoadCsv(fs, "src", l[2]).out \o <<Msg("loaded successfully", NRows(data))>>
       /\ op = Call("__init__", [NoArgs EXCEPT !.path = "src", !.index_col = l[2]])
  /\ ret = RetNone
  /\ result = EmptyFrame
  /\ alias = FALSE
  /\ calls = 0

(***************************************************************************)
(* Caller-supplied row functions.  condition_func is one of                *)
(*   "all"  : lambda row: True                                             *)
(*   "a==1" : lambda row: row.get('a') == 1                                *)
(*   "b==0" : lambda row: row.get('b') == 0                                *)
(* or, on the table with the columns name and age (the names a, b, c are   *)
(* written 1, 2, 3: a cell is a number here),                              *)
(*   "age>26"  : lambda row: row['age'] > 26                               *)
(*   "age>=30" : lambda row: row['age'] >= 30                              *)
(*   "name==b" : lambda row: row['name'] == 'b'                            *)
(* and an update value is static (fn = "static", the value v) or the       *)
(* callable lambda row: row.get(of, nan) + 1 (fn = "inc").                 *)
(***************************************************************************)
Preds == {"all", "a==1", "b==0"}

Holds(p, df, i) ==
  CASE p = "all" -> TRUE
    [] p = "a==1" -> Cell(df, i, "a") = 1
    [] p = "b==0" -> Cell(df, i, "b") = 0
    [] p = "age>26" -> Cell(df, i, "age") > 26
    [] p = "age>=30" -> Cell(df, i, "age") >= 30
    [] p = "name==b" -> Cell(df, i, "name") = 2

\* DataFrame.apply(condition_func, axis=1): one boolean per row
Mask(df, p) == [i \in DOMAIN df.rows |-> Holds(p, df, i)]

\* df[mask]: the rows whose mask is True, with their labels
Filter(df, mask) ==
  LET idx == SelectIdx(mask, Len(df.rows))
  IN  [df EXCEPT !.index = Take(df.index, idx), !.rows = Take(df.rows, idx)]

Static(c, v) == [col |-> c, fn |-> "static", v |-> v, of |-> ""]
Inc(c, of) == [col |-> c, fn |-> "inc", v |-> 0, of |-> of]

Plus1(v) == IF v = NULL THEN NULL ELSE v + 1

\* the value an update gives the cell of row i, read from the frame as it stands
NewValue(df, i, u) == IF u.fn = "static" THEN u.v ELSE Plus1(Cell(df, i, u.of))

(***************************************************************************)
(* CSVManager.query(condition_func, columns)                               *)
(***************************************************************************)
\* the requested names taken in the order of the frame's columns
ExistingColumnsInFrameOrder(df, columns) ==
  Take(df.columns, SelectIdx([k \in DOMAIN df.columns |-> df.columns[k] \in Range(columns)], Len(df.columns)))

\* the names of columns that the frame has, in the order given
ExistingColumns(df, columns) ==
  Take(columns, SelectIdx([k \in DOMAIN columns |-> columns[k] \in Range(df.columns)], Len(columns)))

QueryRows(df, pred) == IF pred # "" THEN Filter(df, Mask(df, pred)) ELSE df

\* "if columns:" is false for None and for the empty list
QueryCols(df, selected, columns) ==
  IF selected /\ Len(columns) > 0 THEN Reindex(df, ExistingColumns(df, columns)) ELSE df

QueryResult(df, pred, selected, columns) ==
  IF IsEmpty(df) THEN EmptyFrame ELSE QueryCols(QueryRows(df, pred), selected, columns)

QueryOut(df, selected, columns) ==
  IF IsEmpty(df) THEN <<Msg("No data to query", 0)>>
  ELSE IF selected /\ Len(columns) > 0 /\ Len(ExistingColumns(df, columns)) < Len(columns)
       THEN <<Msg("Warning: columns not found", Len(columns) - Len(ExistingColumns(df, columns)))>>
  ELSE <<>>

\* the filter applied to self.data itself
QueryDataFiltersInPlace(df) == Filter(df, Mask(df, "a==1"))

\* self.data after the call: query works on data.copy()
QueryData(df) == df

\* without the copy the frame handed back is self.data itself whenever neither
\* the filter nor the column selection builds a new one
QueryAliasesNoCopy(df, pred, selected, columns) ==
  ~IsEmpty(df) /\ pred = "" /\ ~(selected /\ Len(columns) > 0)

\* whether the frame handed back is the object self.data refers to:
\* pd.DataFrame() and self.data.copy() are new objects
QueryAliases(df, pred, selected, columns) == FALSE

Query(pred, selected, columns) ==
  /\ Step
  /\ result' = QueryResult(data, pred, selected, columns)
  /\ data' = QueryData(data)
  /\ alias' = QueryAliases(data, pred, selected, columns)
  /\ out' = QueryOut(data, selected, columns)
  /\ ret' = RetFrame
  /\ op' = Call("query", [NoArgs EXCEPT !.pred = pred, !.selected = selected, !.select = columns])
  /\ UNCHANGED <<fs, filepath>>

(***************************************************************************)
(* CSVManager.add_row(row_data): row_data is a dict, here the sequence of  *)
(* its <<key, value>> items                                                *)
(***************************************************************************)
\* pd.DataFrame([row_data])
RowFrame(row) ==
  [columns |-> [k \in DOMAIN row |-> row[k][1]], index |-> <<0>>, name |-> "",
   rows |-> << [k \in DOMAIN row |-> row[k][2]] >>]

\* the columns the row lacks filled with 0 instead of NaN
NewRowDfFillsZero(df, row) ==
  [Reindex(RowFrame(row), df.columns) EXCEPT
     !.rows = << [k \in DOMAIN df.columns |->
                    IF df.columns[k] \in Range(RowFrame(row).columns)
                    THEN Cell(RowFrame(row), 1, df.columns[k]) ELSE 0] >>]

\* new_row_df.reindex(columns=self.data.columns, fill_value=None)
NewRowDf(df, row) == Reindex(RowFrame(row), df.columns)

\* pd.concat([a, b]) without ignore_index: the rows keep their labels
ConcatKeepsLabels(a, b) ==
  LET extra == SelectIdx([k \in DOMAIN b.columns |-> b.columns[k] \notin Range(a.columns)], Len(b.columns))
      cols == a.columns \o Take(b.columns, extra)
  IN  [columns |-> cols, index |-> a.index \o b.index, name |-> a.name,
       rows |-> Reindex(a, cols).rows \o Reindex(b, cols).rows]

\* pd.concat([a, b], ignore_index=True): the union of the columns, a's first,
\* the rows of a then of b, relabelled 0..n-1
Concat(a, b) ==
  LET extra == SelectIdx([k \in DOMAIN b.columns |-> b.columns[k] \notin Range(a.columns)], Len(b.columns))
      cols == a.columns \o Take(b.columns, extra)
  IN  [columns |-> cols, index |-> RangeIndex(Len(a.rows) + Len(b.rows)), name |-> "",
       rows |-> Reindex(a, cols).rows \o Reindex(b, cols).rows]

\* the table aligned to the columns of the new row instead
AddRowDataAlignsTable(df, row) == Concat(Reindex(df, RowFrame(row).columns), RowFrame(row))

AddRowData(df, row) == Concat(df, NewRowDf(df, row))

\* self.data is rebound to the frame built by pd.concat
AddRow(row) ==
  /\ Step
  /\ NRows(data) < MaxRows
  /\ data' = AddRowData(data, row)
  /\ out' = <<Msg("Row added", NRows(data'))>>
  /\ ret' = RetNone
  /\ op' = Call("add_row", [NoArgs EXCEPT !.row = row])
  /\ alias' = FALSE
  /\ UNCHANGED <<fs, filepath, result>>

(***************************************************************************)
(* CSVManager.update_data(condition_func, updates): updates is a dict,     *)
(* here the sequence of its items in insertion order                       *)
(***************************************************************************)
\* self.data[rows_to_update_mask].index
RowsToUpdateIndices(df, pred) == Filter(df, Mask(df, pred)).index

\* the assignment made without the test "col in self.data.columns": .loc
\* enlarges the frame by the unknown column
SetColEnlarges(df, labels, u) ==
  IF u.col \notin Range(df.columns)
  THEN [df EXCEPT !.columns = Append(df.columns, u.col),
                  !.rows = [i \in DOMAIN df.rows |->
                              Append(df.rows[i], IF df.index[i] \in Range(labels)
                                                 THEN NewValue(df, i, u) ELSE NULL)]]
  ELSE [df EXCEPT !.rows =
          [i \in DOMAIN df.rows |->
             IF df.index[i] \in Range(labels)
             THEN [df.rows[i] EXCEPT ![Pos(df.columns, u.col)] = NewValue(df, i, u)]
             ELSE df.rows[i]]]

\* self.data.loc[rows_to_update_indices, col] = ...: every row carrying one
\* of the labels is assigned; a callable is applied to the frame as it is now
SetCol(df, labels, u) ==
  IF u.col \notin Range(df.columns) THEN df
  ELSE [df EXCEPT !.rows =
          [i \in DOMAIN df.rows |->
             IF df.index[i] \in Range(labels)
             THEN [df.rows[i] EXCEPT ![Pos(df.columns, u.col)] = NewValue(df, i, u)]
             ELSE df.rows[i]]]

\* for col, value in updates.items()
RECURSIVE ApplyUpdates(_, _, _)
ApplyUpdates(df, labels, updates) ==
  IF updates = <<>> THEN df
  ELSE ApplyUpdates(SetCol(df, labels, Head(updates)), labels, Tail(updates))

UpdateDataData(df, pred, updates) ==
  IF IsEmpty(df) \/ Len(RowsToUpdateIndices(df, pred)) = 0 THEN df
  ELSE ApplyUpdates(df, RowsToUpdateIndices(df, pred), updates)

\* the number of distinct labels printed instead of the number of matching rows
UpdateDataOutCountsLabels(df, pred, updates) ==
  LET unknown == SelectIdx([k \in DOMAIN updates |-> updates[k].col \notin Range(df.columns)], Len(updates))
  IN  IF IsEmpty(df) THEN <<Msg("No data to update", 0)>>
      ELSE IF Len(RowsToUpdateIndices(df, pred)) = 0 THEN <<Msg("No rows matched", 0)>>
      ELSE [k \in DOMAIN unknown |-> Msg("Warning: column not found", unknown[k])]
             \o <<Msg("Updated", Cardinality(Range(RowsToUpdateIndices(df, pred))))>>

\* the prints of update_data: a notice when it returns early, else one
\* warning per unknown column and the number of matching rows
UpdateDataOut(df, pred, updates) ==
  LET unknown == SelectIdx([k \in DOMAIN updates |-> updates[k].col \notin Range(df.columns)], Len(updates))
  IN  IF IsEmpty(df) THEN <<Msg("No data to update", 0)>>
      ELSE IF Len(RowsToUpdateIndices(df, pred)) = 0 THEN <<Msg("No rows matched", 0)>>
      ELSE [k \in DOMAIN unknown |-> Msg("Warning: column not found", unknown[k])]
             \o <<Msg("Updated", Len(RowsToUpdateIndices(df, pred)))>>

\* the assignments through .loc change the frame self.data refers to in place;
\* the values a callable produces are kept within MaxVal
UpdateData(pred, updates) ==
  /\ Step
  /\ data' = UpdateDataData(data, pred, updates)
  /\ \A i \in DOMAIN data'.rows :
       Range(data'.rows[i]) \subseteq
         (NULL..MaxVal) \cup Range(data.rows[i]) \cup {updates[j].v : j \in DOMAIN updates}
  /\ out' = UpdateDataOut(data, pred, updates)
  /\ ret' = RetNone
  /\ op' = Call("update_data", [NoArgs EXCEPT !.pred = pred, !.updates = updates])
  /\ result' = IF alias THEN data' ELSE result
  /\ UNCHANGED <<fs, filepath, alias>>

(***************************************************************************)
(* CSVManager.delete_rows(condition_func)                                  *)
(***************************************************************************)
\* the mask used without the negation: the matching rows are the ones kept
DeleteRowsDataKeepsMatches(df, pred) ==
  IF IsEmpty(df) THEN df
  ELSE LET kept == Filter(df, Mask(df, pred))
       IN  [kept EXCEPT !.index = RangeIndex(Len(kept.rows)), !.name = ""]

\* self.data[rows_to_keep_mask].reset_index(drop=True)
DeleteRowsData(df, pred) ==
  IF IsEmpty(df) THEN df
  ELSE LET kept == Filter(df, [i \in DOMAIN df.rows |-> ~Mask(df, pred)[i]])
       IN  [kept EXCEPT !.index = RangeIndex(Len(kept.rows)), !.name = ""]

DeleteRowsOut(df, pred) ==
  IF IsEmpty(df) THEN <<Msg("No data to delete", 0)>>
  ELSE <<Msg("Deleted", NRows(df) - NRows(DeleteRowsData(df, pred)))>>

\* the function has no return statement
DeleteRowsRet(df, pred) == RetNone

\* self.data is rebound to the filtered frame, unless the call returns early
DeleteRows(pred) ==
  /\ Step
  /\ data' = DeleteRowsData(data, pred)
  /\ out' = DeleteRowsOut(data, pred)
  /\ ret' = DeleteRowsRet(data, pred)
  /\ op' = Call("delete_rows", [NoArgs EXCEPT !.pred = pred])
  /\ alias' = IF IsEmpty(data) THEN alias ELSE FALSE
  /\ UNCHANGED <<fs, filepath, result>>

(***************************************************************************)
(* The inputs the calls are tried with                                     *)
(***************************************************************************)
QueryPreds == {"", "a==1"}

Selects == { <<>>, <<"b", "a">>, <<"z", "a">> }

RowDatas ==
  { << <<"a", 1>> >>,
    << <<"b", 0>>, <<"a", 2>> >>,
    << <<"c", 2>>, <<"a", 1>>, <<"d", NULL>> >> }

UpdateDicts ==
  { << Static("a", 2) >>,
    << Inc("a", "b"), Inc("b", "a") >>,
    << Inc("b", "a"), Inc("a", "b") >>,
    << Static("z", 1), Static("b", 1) >>,
    << Static("a", 0), Static("z", 1) >> }

Next ==
  \/ \E p \in QueryPreds : Query(p, FALSE, <<>>)
  \/ \E p \in QueryPreds, c \in Selects : Query(p, TRUE, c)
  \/ \E r \in RowDatas : AddRow(r)
  \/ \E p \in Preds, u \in UpdateDicts : UpdateData(p, u)
  \/ \E p \in Preds : DeleteRows(p)

Spec == Init /\ [][Next]_vars

(***************************************************************************)
(* CSVManager.save_changes(output_filepath, index=...).  The write is one  *)
(* call of DataFrame.to_csv on the destination itself; fault is what the   *)
(* file system does to it:                                                 *)
(*   ""      the write completes                                           *)
(*   "open"  the destination cannot be opened; nothing is touched          *)
(*   "write" the destination was opened for writing (truncated) and the    *)
(*           write failed after k lines                                    *)
(***************************************************************************)
Faults == {"", "open", "write"}

\* the source path taken whatever destination is given
PathToSaveIgnoresOutput(output, fp) == fp

\* output_filepath if output_filepath else self.filepath
PathToSave(output, fp) == IF output # "" THEN output ELSE fp

\* the file left at the destination by self.data.to_csv(path_to_save, **kwargs)
WrittenFile(old, df, index, fault, k) ==
  CASE fault = "" -> File(ToCsv(df, index))
    [] fault = "open" -> old
    [] fault = "write" -> File(SubSeq(ToCsv(df, index), 1, k))

\* the success message printed whatever happened
SaveOutAlwaysSaved(fault) == <<Msg("Changes saved successfully", 0)>>

\* the exception of to_csv is caught and printed
SaveOut(fault) ==
  IF fault = "" THEN <<Msg("Changes saved successfully", 0)>> ELSE <<Msg("Error saving changes to CSV", 0)>>

\* neither branch of the try has a return statement
SaveRet(fault) == RetNone

SaveChanges(output, index, fault, k) ==
  /\ Step
  /\ IF fault = "write" THEN k < Len(ToCsv(data, index)) ELSE k = 0
  /\ fs' = [fs EXCEPT ![PathToSave(output, filepath)] =
                         WrittenFile(fs[PathToSave(output, filepath)], data, index, fault, k)]
  /\ out' = SaveOut(fault)
  /\ ret' = SaveRet(fault)
  /\ op' = Call("save_changes", [NoArgs EXCEPT !.path = output, !.index = index, !.fault = fault])
  /\ UNCHANGED <<filepath, data, result, alias>>

(***************************************************************************)
(* Loading and saving, with the calls that change what is saved            *)
(***************************************************************************)
IORowDatas == { << <<"b", 0>>, <<"a", 2>> >>, << <<"c", 2>>, <<"a", 1>> >> }

NextIO ==
  \/ \E p \in Paths, ic \in KeyCols : Construct(p, ic)
  \/ \E o \in {"", "out"}, i \in BOOLEAN, f \in Faults, k \in 0..MaxRows : SaveChanges(o, i, f, k)
  \/ \E r \in IORowDatas : AddRow(r)
  \/ DeleteRows("a==1")
  \/ UpdateData("all", << Static("a", 2) >>)

SpecIO == Init /\ [][NextIO]_vars

(***************************************************************************)
(* Vocabulary of the properties                                            *)
(***************************************************************************)
\* the members of S in increasing order
Sorted(S) ==
  CHOOSE f \in [1..Cardinality(S) -> S] : \A i, j \in 1..Cardinality(S) : i < j => f[i] < f[j]

\* the elements of the sequence s that are in S, in the order of s
RECURSIVE Known(_, _)
Known(s, S) ==
  IF s = <<>> THEN <<>>
  ELSE IF Head(s) \in S THEN <<Head(s)>> \o Known(Tail(s), S) ELSE Known(Tail(s), S)

\* the elements of the sequence s that are not in S, each once, in the order first met
RECURSIVE Unknown(_, _)
Unknown(s, S) ==
  IF s = <<>> THEN <<>>
  ELSE IF Head(s) \in S THEN Unknown(Tail(s), S)
       ELSE <<Head(s)>> \o Unknown(Tail(s), S \cup {Head(s)})

\* the rows of df for which the predicate is true ("" is the omitted predicate)
Matching(df, pred) == {i \in DOMAIN df.rows : pred = "" \/ Holds(pred, df, i)}

\* the rows of after are the rows of before at the positions keep, in order
RowsAre(before, after, keep) ==
  /\ Len(after.rows) = Cardinality(keep)
  /\ \A j \in DOMAIN after.rows : after.rows[j] = before.rows[Sorted(keep)[j]]

\* the keys of a row_data dict and the value it gives a key
Keys(row) == [k \in DOMAIN row |-> row[k][1]]
ValueOf(row, c) == row[Pos(Keys(row), c)][2]

\* an integer handed back by a call
RetInt(n) == [kind |-> "int", n |-> n]

(***************************************************************************)
(* C1: add_row appends every key of values that the schema lacks to the    *)
(* end of the schema, in the order first met; the new row holds the        *)
(* supplied value under it and every earlier row holds null under it.      *)
(***************************************************************************)
C1_AddRowExtendsSchema ==
  [][op'.name = "add_row" =>
       LET row == op'.args.row
           fresh == Unknown(Keys(row), Range(data.columns))
       IN  /\ data'.columns = data.columns \o fresh
           /\ NRows(data') = NRows(data) + 1
           /\ \A k \in DOMAIN fresh :
                /\ Cell(data', NRows(data'), fresh[k]) = ValueOf(row, fresh[k])
                /\ \A i \in 1..NRows(data) : Cell(data', i, fresh[k]) = NULL]_vars

(***************************************************************************)
(* C2: in one update_data call every new cell is computed from the         *)
(* pre-call values of its row: no update function sees a value written     *)
(* earlier in the same call, whatever the order of the columns in updates. *)
(***************************************************************************)
C2_UpdateFromSnapshot ==
  [][op'.name = "update_data" =>
       \A i \in Matching(data, op'.args.pred) :
         \A k \in DOMAIN op'.args.updates :
           LET u == op'.args.updates[k]
           IN  u.col \in Range(data.columns) => Cell(data', i, u.col) = NewValue(data, i, u)]_vars

C5_QueryPure ==
  [][op'.name = "query" =>
       /\ data' = data
       /\ (op.name = "query" /\ op'.args = op.args) => result' = result]_vars

\* a query with a predicate that not every row satisfies has returned rows of a table
C5_Witness ==
  /\ op.name = "query"
  /\ op.args.pred = "a==1"
  /\ NRows(result) = 1
  /\ NRows(data) = 2

(***************************************************************************)
(* C8: the schema after an add_row call contains every column of the       *)
(* schema before it, in the same relative order.                           *)
(***************************************************************************)
C8_SchemaMonotone ==
  [][op'.name = "add_row" =>
       /\ Range(data.columns) \subseteq Range(data'.columns)
       /\ Known(data'.columns, Range(data.columns)) = data.columns]_vars

\* a row with a key outside the schema was added to a table with two columns
C8_Witness ==
  /\ op.name = "add_row"
  /\ "c" \in Range(Keys(op.args.row))
  /\ "b" \notin Range(Keys(op.args.row))
  /\ Len(data.columns) = 2
  /\ NRows(data) = 2

\* what the columns of a query result are claimed to be
ClaimedColumns(df, selected, select) ==
  IF selected THEN Known(select, Range(df.columns)) ELSE df.columns

\* the same, an empty select list counting as an omitted one
SelectedColumns(df, selected, select) ==
  IF selected /\ select # <<>> THEN Known(select, Range(df.columns)) ELSE df.columns

\* the frame res holds the rows keep of df under the columns cols, in table order
ResultIs(res, df, keep, cols) ==
  /\ res.columns = cols
  /\ Len(res.rows) = Cardinality(keep)
  /\ \A j \in DOMAIN res.rows :
       /\ Len(res.rows[j]) = Len(cols)
       /\ \A k \in DOMAIN cols : res.rows[j][k] = Cell(df, Sorted(keep)[j], cols[k])

(***************************************************************************)
(* C10, as claimed: a query on a non-empty table returns the rows for      *)
(* which the predicate is true (all rows without predicate), in table      *)
(* order; with select given, under the names of select that the schema     *)
(* has, in the order of select; without select, under all columns.         *)
(***************************************************************************)
C10_QuerySelects ==
  [][(op'.name = "query" /\ ~IsEmpty(data)) =>
       ResultIs(result', data, Matching(data, op'.args.pred),
                ClaimedColumns(data, op'.args.selected, op'.args.select))]_vars

(***************************************************************************)
(* C10, amended: a query on a table with at least one row and one column   *)
(* returns the rows for which the predicate is true (all rows without      *)
(* predicate), in table order; with a select that names at least one       *)
(* column, under the names of select that the schema has, in the order of  *)
(* select; with select omitted or an empty list, under all columns.        *)
(***************************************************************************)
C10_QuerySelectsNonEmptyList ==
  [][(op'.name = "query" /\ ~IsEmpty(data)) =>
       ResultIs(result', data, Matching(data, op'.args.pred),
                SelectedColumns(data, op'.args.selected, op'.args.select))]_vars

\* a query with predicate and a select naming an unknown column returned one row of two
C10_Witness ==
  /\ op.name = "query"
  /\ op.args.selected
  /\ op.args.select = <<"z", "a">>
  /\ op.args.pred = "a==1"
  /\ NRows(data) = 2
  /\ result.columns = <<"a">>
  /\ NRows(result) = 1

\* a save has just completed and the next call constructs a table from its destination
Reloads(index, index_col) ==
  /\ op.name = "save_changes" /\ op.args.fault = "" /\ op.args.index = index
  /\ op'.name = "__init__"
  /\ op'.args.path = PathToSave(op.args.path, filepath)
  /\ op'.args.index_col = index_col

(***************************************************************************)
(* C4, as claimed: save with the default options, then a table constructed *)
(* from the same destination (with the key column the saved table has):    *)
(* the same column names in the same order, no extra column, and the same  *)
(* row values in the same order.                                           *)
(***************************************************************************)
C4_RoundTripDefault ==
  [][Reloads(TRUE, data.name) => data'.columns = data.columns /\ data'.rows = data.rows]_vars

(***************************************************************************)
(* C4, amended: save followed by constructing a table without key column   *)
(* from the same destination.  With the option index=False and a table of  *)
(* at least one column whose cells are integers or null: the same column   *)
(* names in the same order, no extra column, and the same row values in    *)
(* the same order.  With the default options: one extra leading column     *)
(* that holds the row labels, followed by the same row values in the same  *)
(* order.                                                                  *)
(***************************************************************************)
C4_RoundTripWithoutIndex ==
  [][/\ (Reloads(FALSE, "") /\ Len(data.columns) > 0) =>
          data'.columns = data.columns /\ data'.rows = data.rows
     /\ Reloads(TRUE, "") =>
          /\ Len(data'.columns) = Len(data.columns) + 1
          /\ NRows(data') = NRows(data)
          /\ \A i \in DOMAIN data.rows : data'.rows[i] = <<data.index[i]>> \o data.rows[i]]_vars

\* a table with a null cell was written without index to "out" and read back
C4_Witness ==
  /\ op.name = "__init__"
  /\ op.args.path = "out"
  /\ op.args.index_col = ""
  /\ NRows(data) = 2
  /\ \E i \in DOMAIN data.rows : NULL \in Range(data.rows[i])
  /\ fs["out"] = File(ToCsv(data, FALSE))

C7_SaveAllOrNothing ==
  [][op'.name = "save_changes" =>
       LET dest == PathToSave(op'.args.path, filepath)
       IN  fs'[dest] = File(ToCsv(data, op'.args.index)) \/ fs'[dest] = fs[dest]]_vars

(***************************************************************************)
(* C9: constructing a table never raises.  A source that does not exist,   *)
(* is empty, or cannot be parsed gives the table without columns and rows; *)
(* every other source gives one row per data line, under the header's      *)
(* columns (the key column, when one is designated, labelling the rows).   *)
(***************************************************************************)
C9_ConstructNeverFails ==
  op.name = "__init__" =>
    LET f == fs[op.args.path]
        key == op.args.index_col
        ls == NonBlank(f.lines)
        names == HeaderNames(ls[1])
        field(i, c) == IF Pos(names, c) <= Len(ls[i + 1]) THEN ls[i + 1][Pos(names, c)] ELSE ""
    IN  /\ ret = RetNone
        /\ IF ~f.exists \/ ls = <<>> \/ ReadCsv(f.lines, key).err = "Exception"
           THEN data = EmptyFrame
           ELSE /\ NRows(data) = Len(ls) - 1
                /\ Len(data.index) = NRows(data)
                /\ data.columns = Known(names, Range(names) \ {key})
                /\ \A i \in DOMAIN data.rows :
                     /\ Len(data.rows[i]) = Len(data.columns)
                     /\ \A c \in Range(data.columns) : Cell(data, i, c) = FromText(field(i, c))
                     /\ key # "" => data.index[i] = FromText(field(i, key))

\* a table was constructed anew from a source that cannot be parsed
C9_Witness ==
  /\ op.name = "__init__"
  /\ calls > 0
  /\ fs[op.args.path].exists
  /\ ReadCsv(fs[op.args.path].lines, op.args.index_col).err = "Exception"
  /\ data = EmptyFrame

(***************************************************************************)
(* The caller keeps the frame a query handed back and writes into it.      *)
(***************************************************************************)
\* R.iloc[0, 0] = v on the frame R returned by query; the table changes with
\* it only if R is the object self.data refers to
WriteResult(v) ==
  /\ Step
  /\ NRows(result) > 0 /\ Len(result.columns) > 0
  /\ result' = [result EXCEPT !.rows[1][1] = v]
  /\ data' = IF alias THEN result' ELSE data
  /\ out' = <<>>
  /\ ret' = RetNone
  /\ op' = Call("write_result", NoArgs)
  /\ UNCHANGED <<fs, filepath, alias>>

NextResult ==
  \/ Next
  \/ \E v \in 0..MaxVal : WriteResult(v)

SpecResult == Init /\ [][NextResult]_vars

(***************************************************************************)
(* C11: a query result is independent of the table: add_row, update_data   *)
(* and delete_rows calls made after the query leave the result's rows,     *)
(* columns and cells as they were, and a change made to the result changes *)
(* nothing in the table.                                                   *)
(***************************************************************************)
C11_ResultIndependent ==
  [][/\ op'.name \in {"add_row", "update_data", "delete_rows"} => result' = result
     /\ op'.name = "write_result" => data' = data]_vars

\* the table was updated after a query of all its rows, and the result kept the old cells
C11_Witness ==
  /\ op.name = "update_data"
  /\ NRows(result) = 2
  /\ result.columns = data.columns
  /\ result.index = data.index
  /\ result.rows # data.rows

(***************************************************************************)
(* C12: update_data never extends the schema: a column name that the       *)
(* schema lacks is skipped without failing, the schema after the call is   *)
(* the schema before it, and every column of updates that does exist is    *)
(* still applied to the selected rows, wherever the unknown name stands.   *)
(***************************************************************************)
C12_UpdateSkipsUnknown ==
  [][op'.name = "update_data" =>
       /\ ret' = RetNone
       /\ data'.columns = data.columns
       /\ \A i \in DOMAIN data'.rows : Len(data'.rows[i]) = Len(data.columns)
       /\ \A i \in Matching(data, op'.args.pred) :
            \A k \in DOMAIN op'.args.updates :
              LET u == op'.args.updates[k]
              IN  (u.fn = "static" /\ u.col \in Range(data.columns)) => Cell(data', i, u.col) = u.v]_vars

\* an update naming an unknown column first was applied to its known column
C12_Witness ==
  /\ op.name = "update_data"
  /\ op.args.updates = << Static("z", 1), Static("b", 1) >>
  /\ out[Len(out)].msg = "Updated"
  /\ "z" \notin Range(data.columns)
  /\ \E i \in DOMAIN data.rows : Cell(data, i, "b") = 1

(***************************************************************************)
(* C13: add_row increases the row count by one, puts the new row last,     *)
(* leaves every earlier row at its position with its cells unchanged, and  *)
(* gives the new row null under every schema column that is not a key of   *)
(* values.                                                                 *)
(***************************************************************************)
C13_AddRowAppends ==
  [][op'.name = "add_row" =>
       LET row == op'.args.row
           last == NRows(data')
       IN  /\ NRows(data') = NRows(data) + 1
           /\ \A i \in DOMAIN data.rows :
                \A c \in Range(data.columns) : Cell(data', i, c) = Cell(data, i, c)
           /\ \A c \in Range(data'.columns) :
                Cell(data', last, c) = IF c \in Range(Keys(row)) THEN ValueOf(row, c) ELSE NULL]_vars

\* the row {a: 1} was appended to a table of two rows with the columns a, b
C13_Witness ==
  /\ op.name = "add_row"
  /\ op.args.row = << <<"a", 1>> >>
  /\ data.columns = <<"a", "b">>
  /\ NRows(data) = 3
  /\ data.rows[3] = <<1, NULL>>

ScenarioLines == << <<"name", "age">>, <<"a", "30">>, <<"b", "25">> >>

\* pd.read_csv of that file
ScenarioTable ==
  [columns |-> <<"name", "age">>, index |-> RangeIndex(2), name |-> "",
   rows |-> << <<1, 30>>, <<2, 25>> >>]

\* {'name': 'c', 'age': 40, 'city': 'X'}
ScenarioRow == << <<"name", 3>>, <<"age", 40>>, <<"city", 7>> >>

\* {'age': 26}
ScenarioUpdates == << Static("age", 26) >>

InitScenario ==
  /\ filepath = "src"
  /\ fs = [p \in Paths |-> IF p = "src" THEN File(ScenarioLines) ELSE Missing]
  /\ data = ScenarioTable
  /\ out = <<Msg("loaded successfully", NRows(data))>>
  /\ op = Call("__init__", [NoArgs EXCEPT !.path = "src"])
  /\ ret = RetNone
  /\ result = EmptyFrame
  /\ alias = FALSE
  /\ calls = 0

NextScenario ==
  \/ \E p \in {"", "age>26"} : Query(p, FALSE, <<>>)
  \/ \E c \in { <<"name">>, <<"city", "name">> } : Query("age>26", TRUE, c)
  \/ AddRow(ScenarioRow)
  \/ UpdateData("name==b", ScenarioUpdates)
  \/ DeleteRows("age>=30")

SpecScenario == InitScenario /\ [][NextScenario]_vars

(***************************************************************************)
(* C15: the concrete scenario.  From the rows [{name:a, age:30},           *)
(* {name:b, age:25}], query(age > 26) returns only row a;                  *)
(* add_row({name:c, age:40, city:X}) makes the schema [name, age, city]    *)
(* with city null for a and b; update_data(name == b, {age: 26}) sets b's  *)
(* age to 26 with count 1; delete_rows(age >= 30) removes a and c, returns *)
(* 2 and leaves exactly [{name:b, age:26, city:null}].  Each call is       *)
(* stated from the table the scenario has reached before it.               *)
(***************************************************************************)
C15_Scenario ==
  [][/\ (op'.name = "query" /\ op'.args.pred = "age>26" /\ ~op'.args.selected /\ data = ScenarioTable)
          => /\ result'.columns = <<"name", "age">>
             /\ result'.rows = << <<1, 30>> >>
     /\ (op'.name = "add_row" /\ data = ScenarioTable)
          => /\ data'.columns = <<"name", "age", "city">>
             /\ data'.rows = << <<1, 30, NULL>>, <<2, 25, NULL>>, <<3, 40, 7>> >>
     /\ (op'.name = "update_data" /\ data.columns = <<"name", "age", "city">>
           /\ data.rows = << <<1, 30, NULL>>, <<2, 25, NULL>>, <<3, 40, 7>> >>)
          => /\ data'.rows = << <<1, 30, NULL>>, <<2, 26, NULL>>, <<3, 40, 7>> >>
             /\ ret' = RetInt(1)
     /\ (op'.name = "delete_rows" /\ data.columns = <<"name", "age", "city">>
           /\ data.rows = << <<1, 30, NULL>>, <<2, 26, NULL>>, <<3, 40, 7>> >>)
          => /\ data'.columns = <<"name", "age", "city">>
             /\ data'.rows = << <<2, 26, NULL>> >>
             /\ ret' = RetInt(2)]_vars

(***************************************************************************)
(* C16: update_data(P, updates) changes only cells in a row for which P is *)
(* true before the call and in a column named in updates: a row for which  *)
(* P is false keeps all its cells, a column not named in updates is        *)
(* unchanged in every row, and row count and row order are unchanged, also *)
(* when a key column was designated at load and several rows carry the     *)
(* same key value.                                                         *)
(***************************************************************************)
C16_UpdateFrame ==
  [][op'.name = "update_data" =>
       /\ NRows(data') = NRows(data)
       /\ data'.index = data.index
       /\ \A i \in DOMAIN data.rows :
            i \notin Matching(data, op'.args.pred) => data'.rows[i] = data.rows[i]
       /\ \A c \in Range(data.columns) \ {op'.args.updates[k].col : k \in DOMAIN op'.args.updates} :
            \A i \in DOMAIN data.rows : Cell(data', i, c) = Cell(data, i, c)]_vars

(***************************************************************************)
(* C17: save without destination always writes to the path given at        *)
(* construction.  No call but the constructor changes that path; a save    *)
(* with the destination omitted, also after saves to another destination,  *)
(* touches the file at that path only and, when it succeeds, leaves the    *)
(* table's text there; a save to an explicit destination touches the file  *)
(* at the destination only, so that the source file stays as it was.       *)
(***************************************************************************)
C17_SaveTargetsSource ==
  [][/\ op'.name = "__init__" => filepath' = op'.args.path
     /\ op'.name # "__init__" => filepath' = filepath
     /\ op'.name # "save_changes" => fs' = fs
     /\ op'.name = "save_changes" =>
          LET target == IF op'.args.path = "" THEN filepath ELSE op'.args.path
          IN  /\ \A p \in Paths \ {target} : fs'[p] = fs[p]
              /\ op'.args.fault = "" => fs'[target] = File(ToCsv(data, op'.args.index))]_vars

\* after a save to the destination "out", a save without destination wrote
\* the table to the source path "src"
C17_Witness ==
  /\ op.name = "save_changes"
  /\ op.args.path = "" /\ op.args.fault = ""
  /\ filepath = "src"
  /\ fs["out"].exists
  /\ NRows(data) > 0
  /\ fs["src"] = File(ToCsv(data, op.args.index))
  /\ fs["src"] # fs["out"]

\* no two rows carry the same label
UniqueLabels(df) == Cardinality(Range(df.index)) = Len(df.index)

(***************************************************************************)
(* C18: after every add_row, and after every delete_rows that is not the   *)
(* no-op on an empty table, the rows are labelled 0..n-1 in row order,     *)
(* whatever key column was designated at load.  Unique labels stay unique  *)
(* under query, add_row, update_data and delete_rows, and with unique      *)
(* labels update_data addresses exactly the matching rows: a row that does *)
(* not match keeps its cells, a matching row gets the static values.       *)
(***************************************************************************)
C18_PositionalLabels ==
  [][/\ op'.name = "add_row" => data'.index = RangeIndex(NRows(data'))
     /\ (op'.name = "delete_rows" /\ ~IsEmpty(data)) => data'.index = RangeIndex(NRows(data'))
     /\ (op'.name \in {"query", "add_row", "update_data", "delete_rows"} /\ UniqueLabels(data))
          => UniqueLabels(data')
     /\ (op'.name = "update_data" /\ UniqueLabels(data)) =>
          \A i \in DOMAIN data.rows :
            IF i \in Matching(data, op'.args.pred)
            THEN \A k \in DOMAIN op'.args.updates :
                   LET u == op'.args.updates[k]
                   IN  (u.fn = "static" /\ u.col \in Range(data.columns)) => Cell(data', i, u.col) = u.v
            ELSE data'.rows[i] = data.rows[i]]_vars

\* a row was added to the table loaded with the key column k, whose two
\* rows carried the same label
C18_Witness ==
  /\ op.name = "add_row"
  /\ fs["src"].lines = << <<"k", "a", "b">>, <<"1", "1", "0">>, <<"1", "0", "0">> >>
  /\ data.columns = <<"a", "b">>
  /\ data.index = <<0, 1, 2>>

====
